---- MODULE Spec2Model ----
(***************************************************************************)
(* Model of src/src/huffman.rs: CharWeightMap::build (character counting)  *)
(* and HuffmanTree::build / HuffmanTree::find_min (Huffman tree            *)
(* construction over a pool of 2n-1 nodes).                                *)
(*                                                                         *)
(* The node pool `vec` is a function from slot index (0-based, as in the   *)
(* source) to a node record.  An Rc handle to a node is modelled by the    *)
(* node's slot index; Option::None of a link is NoneLink, of a char is     *)
(* NoValue.  Weight (u64) and usize are modelled with a reduced width      *)
(* (WeightBits, UsizeBits); arithmetic keeps that width.  The build        *)
(* profile decides what an arithmetic overflow does (panic with overflow   *)
(* checks, wrap-around without), so it is chosen nondeterministically.     *)
(***************************************************************************)
EXTENDS Integers, Sequences, FiniteSets, TLC

(* ---------------- bounds of the model ---------------- *)

\* width of the Weight type in the model (u64 in the source)
WeightBits == 4

\* width of usize in the model
UsizeBits == 5

\* longest input text given to CharWeightMap::build; a text's length is below
\* Weight::MAX in the source (a &str holds at most isize::MAX bytes), and so
\* is MaxLen in the model
MaxLen == 5

\* directly constructed tables draw their counts from 1..MaxSmallW and from
\* the large values Weight_MAX / 2 + 1 (two of them overflow) and Weight_MAX
MaxSmallW == 2

\* the characters that may occur in a table
Chars == {"a", "b", "c", "d"}

\* the characters that may occur in an input text
TextChars == {"a", "b", "c"}

(* ---------------- types ---------------- *)

Pow2(k) == 2 ^ k

\* Weight::MAX
Weight_MAX == Pow2(WeightBits) - 1

\* usize::MAX and isize::MAX
usize_MAX == Pow2(UsizeBits) - 1
isize_MAX == Pow2(UsizeBits - 1) - 1

\* Option::None of a parent/left/right link, and of a find_min result
NoneLink == -1

\* Option::None of a node's char value
NoValue == "None"

\* HuffmanTree::new()
NewNode == [value |-> NoValue, weight |-> 0, parent |-> NoneLink,
            left |-> NoneLink, right |-> NoneLink]

\* the empty HashMap
EmptyMap == [c \in {} |-> 0]

\* the empty pool (before allocation)
EmptyVec == [i \in {} |-> NewNode]

\* the orders in which a HashMap's iterator may yield the keys S
Orders(S) == {s \in [1..Cardinality(S) -> S] : \A i, j \in DOMAIN s : s[i] = s[j] => i = j}

\* the texts given to CharWeightMap::build
Texts == UNION {[1..k -> TextChars] : k \in 0..MaxLen}

\* the counts of directly constructed tables
WeightChoices ==
    (1..MaxSmallW) \cup {Weight_MAX \div 2 + 1, Weight_MAX}

\* the tables a caller can construct through the public field `inner`
Tables == UNION {[S -> WeightChoices] : S \in (SUBSET Chars) \ {{}}}

VARIABLES
    overflow_checks,  \* build profile: TRUE = arithmetic overflow panics, FALSE = it wraps
    source,           \* "text": the table comes from CharWeightMap::build; "table": built directly
    input,            \* the text (sequence of chars)
    pos,              \* number of chars of input already counted
    map,              \* CharWeightMap.inner
    pc,               \* "scan", "build", "fill", "merge", "done"
    n,                \* char_weight.len()
    total,            \* 2 * n - 1
    vec,              \* the node pool
    index,            \* loop variable of the merge loop
    m1,               \* m1 of the last merge (slot, or NoneLink)
    m2,               \* m2 of the last merge (slot, or NoneLink)
    calls,            \* number of find_min calls made so far
    outcome,          \* "running", "returned", "panic"
    panic_line,       \* source line of the panic, 0 if none
    root              \* the returned handle (slot), NoneLink if none

vars == <<overflow_checks, source, input, pos, map, pc, n, total, vec, index,
          m1, m2, calls, outcome, panic_line, root>>

(* ---------------- arithmetic of the fixed-width types ---------------- *)

\* a + b overflows Weight
AddOverflows(a, b) == a + b > Weight_MAX

\* a + b in Weight without overflow checks
WrappingAdd(a, b) == (a + b) % Pow2(WeightBits)

\* faulty variant: the pool has 2 * n slots
TotalNoMinusOne(k) == (2 * k) % Pow2(UsizeBits)

\* 2 * n - 1 in usize without overflow checks
TotalWrapping(k) == (2 * k - 1) % Pow2(UsizeBits)

\* 2 * n - 1 overflows usize (2 * n overflows, or the subtraction underflows)
TotalOverflows(k) == 2 * k > usize_MAX \/ 2 * k - 1 < 0

(* ---------------- CharWeightMap ---------------- *)

\* faulty variant: an absent char starts at 1 instead of 0
OrInsert1(m, ch) == IF ch \in DOMAIN m THEN m[ch] ELSE 1

\* map.entry(char).or_insert(0): the count of char, 0 if absent
OrInsert0(m, ch) == IF ch \in DOMAIN m THEN m[ch] ELSE 0

\* map with the count of ch set to w
Put(m, ch, w) == [c \in DOMAIN m \cup {ch} |-> IF c = ch THEN w ELSE m[c]]

\* CharWeightMap::len
MapLen(m) == Cardinality(DOMAIN m)

(* ---------------- HuffmanTree::find_min ---------------- *)

\* faulty variant: a tie goes to the later slot
EligibleLastOfTies(node, min) == node.parent = NoneLink /\ node.weight <= min

\* faulty variant: attached nodes stay eligible
EligibleIgnoringParent(node, min) == node.weight < min

\* the test of find_min's loop body
Eligible(node, min) == node.parent = NoneLink /\ node.weight < min

RECURSIVE find_min_loop(_, _, _, _, _)
\* the loop of find_min over tree_slice = v[..len], from position k on
find_min_loop(v, len, k, min, result) ==
    IF k >= len THEN result
    ELSE IF Eligible(v[k], min)
         THEN find_min_loop(v, len, k + 1, v[k].weight, k)
         ELSE find_min_loop(v, len, k + 1, min, result)

\* find_min(&vec[..len]): a slot, or NoneLink
find_min(v, len) == find_min_loop(v, len, 0, Weight_MAX, NoneLink)

(* ---------------- HuffmanTree::build ---------------- *)

\* faulty variant: m2 becomes the left child and m1 the right child
ChildrenSwapped(a, b) == <<b, a>>

\* the (left, right) children the merge stores in the new node
Children(a, b) == <<a, b>>

\* faulty variant: the new node gets m1's weight twice
MergeWeightOfM1Twice(w1, w2) == WrappingAdd(w1, w1)

\* w1 + w2 without overflow checks
MergeWeight(w1, w2) == WrappingAdd(w1, w2)

\* faulty variant: the parent link is not recorded
SetParentForgotten(v, k, i) == v

\* node.parent = Some(vec[i].clone())
SetParent(v, k, i) == [v EXCEPT ![k].parent = i]

\* the leaf assignments of the for_each over the table's iteration
FillLeaves(v, m, order) ==
    [i \in DOMAIN v |->
        IF i < Len(order)
        THEN [v[i] EXCEPT !.value = order[i + 1], !.weight = m[order[i + 1]]]
        ELSE v[i]]

\* the assignments to vec[index] that end a merge
Link(v, i, a, b, w) ==
    [v EXCEPT ![i].weight = w,
              ![i].left = Children(a, b)[1],
              ![i].right = Children(a, b)[2]]

Panic(line) ==
    /\ outcome' = "panic"
    /\ panic_line' = line
    /\ pc' = "done"

(* ---------------- initial states ---------------- *)

Init ==
    /\ overflow_checks \in BOOLEAN
    /\ source \in {"text", "table"}
    /\ IF source = "text"
       THEN input \in Texts /\ map = EmptyMap /\ pc = "scan"
       ELSE input = <<>> /\ map \in Tables /\ pc = "build"
    /\ pos = 0
    /\ n = 0
    /\ total = 0
    /\ vec = EmptyVec
    /\ index = 0
    /\ m1 = NoneLink
    /\ m2 = NoneLink
    /\ calls = 0
    /\ outcome = "running"
    /\ panic_line = 0
    /\ root = NoneLink

(* ---------------- actions ---------------- *)

\* one iteration of the loop of CharWeightMap::build
Scan ==
    /\ pc = "scan"
    /\ pos < Len(input)
    /\ LET ch == input[pos + 1]
           c  == OrInsert0(map, ch)
       IN IF AddOverflows(c, 1) /\ overflow_checks
          THEN /\ Panic(24)
               /\ UNCHANGED <<map, pos>>
          ELSE /\ map' = Put(map, ch, WrappingAdd(c, 1))
               /\ pos' = pos + 1
               /\ UNCHANGED <<pc, outcome, panic_line>>
    /\ UNCHANGED <<overflow_checks, source, input, n, total, vec, index, m1, m2, calls, root>>

\* the loop of CharWeightMap::build ends; the table is handed to HuffmanTree::build
ScanDone ==
    /\ pc = "scan"
    /\ pos = Len(input)
    /\ pc' = "build"
    /\ UNCHANGED <<overflow_checks, source, input, pos, map, n, total, vec, index,
                   m1, m2, calls, outcome, panic_line, root>>

\* HuffmanTree::build, lines 66-72: n, total and the pool
Alloc ==
    /\ pc = "build"
    /\ n' = MapLen(map)
    /\ IF TotalOverflows(MapLen(map)) /\ overflow_checks
       THEN /\ Panic(68)
            /\ UNCHANGED <<total, vec>>
       ELSE /\ total' = TotalWrapping(MapLen(map))
            /\ IF TotalWrapping(MapLen(map)) > isize_MAX
               THEN \* collect() asks for a Vec of more than isize::MAX bytes: capacity overflow
                    /\ Panic(70)
                    /\ UNCHANGED vec
               ELSE /\ vec' = [i \in 0..(TotalWrapping(MapLen(map)) - 1) |-> NewNode]
                    /\ pc' = "fill"
                    /\ UNCHANGED <<outcome, panic_line>>
    /\ UNCHANGED <<overflow_checks, source, input, pos, map, index, m1, m2, calls, root>>

\* HuffmanTree::build, lines 75-82: the leaves, in the order the HashMap iterates
Fill ==
    /\ pc = "fill"
    /\ \E order \in Orders(DOMAIN map) : vec' = FillLeaves(vec, map, order)
    /\ index' = n
    /\ pc' = "merge"
    /\ UNCHANGED <<overflow_checks, source, input, pos, map, n, total, m1, m2, calls,
                   outcome, panic_line, root>>

\* one iteration of the merge loop, lines 84-101
Merge ==
    /\ pc = "merge"
    /\ index < total
    /\ LET r1 == find_min(vec, index)
           v1 == SetParent(vec, r1, index)
           r2 == find_min(v1, index)
           v2 == SetParent(v1, r2, index)
       IN IF r1 = NoneLink
          THEN /\ Panic(86)
               /\ calls' = calls + 1
               /\ UNCHANGED <<vec, index, m1, m2>>
          ELSE IF r2 = NoneLink
          THEN /\ Panic(90)
               /\ calls' = calls + 2
               /\ vec' = v1
               /\ m1' = r1
               /\ UNCHANGED <<index, m2>>
          ELSE IF AddOverflows(v2[r1].weight, v2[r2].weight) /\ overflow_checks
          THEN /\ Panic(96)
               /\ calls' = calls + 2
               /\ vec' = v2
               /\ m1' = r1
               /\ m2' = r2
               /\ UNCHANGED index
          ELSE /\ vec' = Link(v2, index, r1, r2, MergeWeight(v2[r1].weight, v2[r2].weight))
               /\ calls' = calls + 2
               /\ m1' = r1
               /\ m2' = r2
               /\ index' = index + 1
               /\ UNCHANGED <<pc, outcome, panic_line>>
    /\ UNCHANGED <<overflow_checks, source, input, pos, map, n, total, root>>

\* line 103: vec.last().unwrap().clone()
Return ==
    /\ pc = "merge"
    /\ index >= total
    /\ root' = total - 1
    /\ outcome' = "returned"
    /\ pc' = "done"
    /\ UNCHANGED <<overflow_checks, source, input, pos, map, n, total, vec, index,
                   m1, m2, calls, panic_line>>

Next == Scan \/ ScanDone \/ Alloc \/ Fill \/ Merge \/ Return

Spec == Init /\ [][Next]_vars

(* ---------------- vocabulary of the properties ---------------- *)

SetMin(S) == CHOOSE x \in S : \A y \in S : x <= y

RECURSIVE SetSum(_, _)
\* the sum of w[k] over k in S
SetSum(w, S) ==
    IF S = {} THEN 0
    ELSE LET k == CHOOSE x \in S : TRUE IN w[k] + SetSum(w, S \ {k})

HasValue(k) == vec[k].value # NoValue
HasLeft(k) == vec[k].left # NoneLink
HasRight(k) == vec[k].right # NoneLink

\* a leaf: a char value and no children
IsLeaf(k) == HasValue(k) /\ ~HasLeft(k) /\ ~HasRight(k)

\* an internal node: no char value and two children
IsInternal(k) == ~HasValue(k) /\ HasLeft(k) /\ HasRight(k)

RECURSIVE Reach(_)
\* the slots reached from slot k through left/right links
Reach(k) ==
    {k} \cup (IF HasLeft(k) THEN Reach(vec[k].left) ELSE {})
        \cup (IF HasRight(k) THEN Reach(vec[k].right) ELSE {})

\* the weights stored in the pool, by slot
WeightOf == [k \in DOMAIN vec |-> vec[k].weight]

\* the merges completed so far filled the slots n .. index-1
Filled == {i \in DOMAIN vec : n <= i /\ i < index}

\* the distinct characters of the text and the occurrences of one of them
CharsOf(text, len) == {text[i] : i \in 1..len}
Occurrences(text, len, ch) == Cardinality({i \in 1..len : text[i] = ch})

\* the table is non-empty and the call of HuffmanTree::build has returned
Returned == outcome = "returned"

\* the sum of the table's counts, as a number (not a Weight)
TableSum == SetSum(map, DOMAIN map)

(* ---------------- C7 ---------------- *)

\* C7: CharWeightMap::build never fails and, after counting the first pos
\* characters of the text, the map's keys are exactly the distinct characters
\* among them, every count is >= 1 and is the exact number of occurrences, the
\* counts sum to pos and len() is the number of distinct characters; when the
\* build has ended pos is the text's length, and the empty text gives the
\* empty table.
C7_CountsExact ==
    source = "text" =>
        /\ panic_line # 24
        /\ pc # "scan" => pos = Len(input)
        /\ DOMAIN map = CharsOf(input, pos)
        /\ \A ch \in DOMAIN map : map[ch] >= 1 /\ map[ch] = Occurrences(input, pos, ch)
        /\ TableSum = pos
        /\ MapLen(map) = Cardinality(CharsOf(input, pos))
        /\ (pc # "scan" /\ input = <<>>) => map = EmptyMap

\* a text with a repeated and several distinct characters has been counted
C7_Witness ==
    /\ source = "text"
    /\ pc = "build"
    /\ Len(input) = MaxLen
    /\ MapLen(map) = 3
    /\ \E ch \in DOMAIN map : map[ch] >= 2

(* ---------------- C1 ---------------- *)

\* C1: when build returns for a table of n >= 1 characters, the nodes reached
\* from the root through left/right are 2n-1 distinct nodes and are all the
\* pool's slots; n of them are leaves, which carry each character of the table
\* exactly once with its count; n-1 are internal nodes; every node is a leaf
\* or an internal node (none has one child).
C1_TreeShape ==
    (Returned /\ n >= 1) =>
        LET R == Reach(root) IN
        /\ Cardinality(R) = 2 * n - 1
        /\ R = DOMAIN vec
        /\ Cardinality({k \in R : IsLeaf(k)}) = n
        /\ Cardinality({k \in R : IsInternal(k)}) = n - 1
        /\ \A k \in R : IsLeaf(k) \/ IsInternal(k)
        /\ \A ch \in DOMAIN map :
              /\ Cardinality({k \in R : IsLeaf(k) /\ vec[k].value = ch}) = 1
              /\ \A k \in R : vec[k].value = ch => vec[k].weight = map[ch]

\* a tree over four characters has been returned
C1_Witness == Returned /\ n = 4 /\ source = "table"

(* ---------------- C2 ---------------- *)

\* the text "aaabb"
Text_aaabb == <<"a", "a", "a", "b", "b">>

\* C2: for a non-empty text, build returns a tree in which every internal
\* node's weight is the sum of its children's weights, the leaf weights sum
\* to the text's length and the root's weight is the text's length; for
\* "aaabb" the root has weight 5 and its children are the leaves a/3 and b/2.
C2_Weights ==
    (source = "text" /\ Len(input) >= 1 /\ pc = "done") =>
        /\ Returned
        /\ \A k \in DOMAIN vec :
              IsInternal(k) => vec[k].weight = vec[vec[k].left].weight + vec[vec[k].right].weight
        /\ SetSum(WeightOf, {k \in DOMAIN vec : IsLeaf(k)}) = Len(input)
        /\ vec[root].weight = Len(input)
        /\ input = Text_aaabb =>
              /\ vec[root].weight = 5
              /\ IsInternal(root)
              /\ LET kids == {vec[root].left, vec[root].right} IN
                 /\ \E k \in kids : IsLeaf(k) /\ vec[k].value = "a" /\ vec[k].weight = 3
                 /\ \E k \in kids : IsLeaf(k) /\ vec[k].value = "b" /\ vec[k].weight = 2

\* the tree of "aaabb" has been returned
C2_Witness == source = "text" /\ input = Text_aaabb /\ Returned

(* ---------------- C3 ---------------- *)

RECURSIVE TreeCost(_, _)
\* the weighted sum of leaf depths below slot k, which is at depth d
TreeCost(k, d) ==
    IF ~HasLeft(k) /\ ~HasRight(k) THEN vec[k].weight * d
    ELSE (IF HasLeft(k) THEN TreeCost(vec[k].left, d + 1) ELSE 0)
         + (IF HasRight(k) THEN TreeCost(vec[k].right, d + 1) ELSE 0)

\* ws without its entries i < j, followed by their sum
Merged(ws, i, j) ==
    [k \in 1..(Len(ws) - 1) |->
        IF k = Len(ws) - 1 THEN ws[i] + ws[j]
        ELSE LET a == IF k >= i THEN k + 1 ELSE k
             IN ws[IF a >= j THEN a + 1 ELSE a]]

RECURSIVE MinCost(_)
\* the least weighted sum of leaf depths of a full binary tree over the leaf
\* weights ws: every such tree arises from merging two siblings at a time, and
\* its weighted sum of leaf depths is the sum of its internal nodes' weights
MinCost(ws) ==
    IF Len(ws) <= 1 THEN 0
    ELSE SetMin({ws[p[1]] + ws[p[2]] + MinCost(Merged(ws, p[1], p[2])) :
                    p \in {q \in (1..Len(ws)) \X (1..Len(ws)) : q[1] < q[2]}})

\* the leaf weights in slot order
LeafWeights == [k \in 1..n |-> vec[k - 1].weight]

\* C3: the tree returned by build is weight-optimal: its weighted sum of leaf
\* depths is at most that of every full binary tree over the same leaf
\* weights; for four unit weights it has 7 nodes and root weight 4.
C3_WeightOptimal ==
    (Returned /\ n >= 1) =>
        /\ TreeCost(root, 0) <= MinCost(LeafWeights)
        /\ (n = 4 /\ \A ch \in DOMAIN map : map[ch] = 1) =>
              Cardinality(Reach(root)) = 7 /\ vec[root].weight = 4

\* the same, for the tables whose counts sum to at most Weight::MAX
C3_OptimalWithoutOverflow ==
    (Returned /\ n >= 1 /\ TableSum <= Weight_MAX) =>
        /\ TreeCost(root, 0) = MinCost(LeafWeights)
        /\ (n = 4 /\ \A ch \in DOMAIN map : map[ch] = 1) =>
              Cardinality(Reach(root)) = 7 /\ vec[root].weight = 4

(* ---------------- C4 ---------------- *)

\* C4: for a table of size zero build ends with an EmptyInput error value:
\* it does not panic, computes no wrapped-around pool size and returns no
\* root.  (The model's outcomes are those of the code, whose return type
\* carries no error: "returned" and "panic".)
C4_EmptyInputIsError ==
    (MapLen(map) = 0 /\ pc = "done") =>
        /\ outcome = "EmptyInput"
        /\ panic_line = 0
        /\ total # usize_MAX
        /\ root = NoneLink

(* ---------------- C5 ---------------- *)

\* C5: for a non-empty table with counts in 1..Weight::MAX build does not
\* panic (no find_min call returns None), ends by returning a root, and every
\* weight stored in an internal node is the sum of its children's weights
\* without overflow.
C5_AlwaysSucceeds ==
    MapLen(map) >= 1 =>
        /\ outcome # "panic"
        /\ pc = "done" => Returned
        /\ \A i \in Filled :
              vec[i].weight = vec[vec[i].left].weight + vec[vec[i].right].weight

(* ---------------- C6 ---------------- *)

\* C6: for a table with one character the pool has exactly one slot, find_min
\* is never called, and build returns that slot: a leaf holding the character
\* and its count, with no parent, no left child and no right child.
C6_SingleLeaf ==
    (MapLen(map) = 1 /\ pc \in {"fill", "merge", "done"}) =>
        /\ total = 1
        /\ DOMAIN vec = {0}
        /\ calls = 0
        /\ outcome # "panic"
        /\ pc = "done" =>
              /\ Returned
              /\ root = 0
              /\ vec[0].value \in DOMAIN map
              /\ vec[0].weight = map[vec[0].value]
              /\ vec[0].parent = NoneLink
              /\ vec[0].left = NoneLink
              /\ vec[0].right = NoneLink

\* the single leaf of a one-character table has been returned
C6_Witness == MapLen(map) = 1 /\ Returned /\ root = 0

(* ---------------- C8 ---------------- *)

\* the nodes of slots [0, i) that were unattached when the merge for slot i
\* began: those with no parent, or attached by the merge for slot i or later
UnattachedBefore(i) ==
    {j \in DOMAIN vec : j < i /\ (vec[j].parent = NoneLink \/ vec[j].parent >= i)}

\* the lowest slot among the nodes of U with the least weight
FirstMin(U) ==
    SetMin({j \in U : \A k \in U : vec[j].weight <= vec[k].weight})

\* C8: in every completed merge, for slot i, the left child is the
\* lowest-indexed minimum-weight node among the nodes of [0, i) unattached
\* when the merge began, and the right child is the lowest-indexed
\* minimum-weight node among the rest of them.
C8_TieBreak ==
    \A i \in Filled :
        LET U == UnattachedBefore(i) IN
        /\ Cardinality(U) >= 2
        /\ vec[i].left = FirstMin(U)
        /\ vec[i].right = FirstMin(U \ {vec[i].left})

\* a returned tree in which one merge chose both children among three nodes
\* of the least weight, and another chose its right child among two nodes of
\* the second-least weight
C8_Witness ==
    /\ Returned
    /\ \E i \in Filled :
          LET U == UnattachedBefore(i)
              l == vec[i].left
              r == vec[i].right
          IN /\ vec[r].weight = vec[l].weight
             /\ \E j \in U : j > r /\ vec[j].weight = vec[r].weight
    /\ \E i \in Filled :
          LET U == UnattachedBefore(i)
              l == vec[i].left
              r == vec[i].right
          IN /\ vec[r].weight > vec[l].weight
             /\ \E j \in U : j > r /\ vec[j].weight = vec[r].weight

(* ---------------- C9 ---------------- *)

\* the nodes of slots [0, index) with no parent
Unattached == {j \in DOMAIN vec : j < index /\ vec[j].parent = NoneLink}

\* the loop is at the start of an iteration, or has ended and build returned
AtLoopHead == pc = "merge" \/ Returned

\* the state part of C9
C9_Inv ==
    (AtLoopHead /\ n >= 1) =>
        /\ \A j \in DOMAIN vec :
              Cardinality({i \in DOMAIN vec : vec[i].left = j \/ vec[i].right = j}) <= 1
        /\ \A i, j \in DOMAIN vec :
              vec[j].parent = i <=> (vec[i].left = j \/ vec[i].right = j)
        /\ \A i \in Filled : vec[i].left # vec[i].right
        /\ Cardinality(Unattached) = 2 * n - index
        /\ Returned => {j \in DOMAIN vec : vec[j].parent = NoneLink} = {2 * n - 2} /\ root = 2 * n - 2

\* the step part of C9: a completed merge selected two distinct nodes that
\* had no parent before it and have the new slot as parent after it
C9_Step ==
    (pc = "merge" /\ index' = index + 1) =>
        /\ m1' # m2'
        /\ vec[m1'].parent = NoneLink
        /\ vec[m2'].parent = NoneLink
        /\ vec'[m1'].parent = index
        /\ vec'[m2'].parent = index

C10_Monotone ==
    (n >= 1 /\ TableSum <= Weight_MAX) =>
        \A i \in Filled :
            /\ vec[vec[i].left].weight <= vec[vec[i].right].weight
            /\ (i + 1) \in Filled => vec[i].weight <= vec[i + 1].weight

\* a returned tree over four characters with strictly growing internal
\* weights and a merge whose left child is lighter than its right child
C10_Witness ==
    /\ Returned
    /\ n = 4
    /\ TableSum <= Weight_MAX
    /\ \A i \in Filled : (i + 1) \in Filled => vec[i].weight < vec[i + 1].weight
    /\ \E i \in Filled : vec[vec[i].left].weight < vec[vec[i].right].weight

====
